---- MODULE Spec2Model ----
(***************************************************************************)
(* Model of src/functions/muscle-image.js: the serverless handler that     *)
(* tints muscle silhouettes and composites them onto a base body image.    *)
(*                                                                         *)
(* A JavaScript string is modelled as a sequence of chunks: a chunk is     *)
(* either the separator "," or a piece of text that holds no comma.  The   *)
(* text of a token is the concatenation of its chunks, so "back" followed  *)
(* by "abs" is the (unknown) identifier "backabs" and "back" followed by   *)
(* " " is the (unknown) identifier "back ".                                *)
(*                                                                         *)
(* One action is one run-to-completion segment of the event loop: the     *)
(* handler up to its first await, the settling of one sharp task, the      *)
(* handler's resumption after Promise.all, the settling of the composite.  *)
(***************************************************************************)
EXTENDS Integers, Sequences, FiniteSets, TLC

VARIABLES
    reqs,                  \* the handler invocations of this behaviour
    event,                 \* event[r]: the argument of invocation r
    files,                 \* the muscle PNG paths that exist under ../images
    availableMuscleGroups, \* the module-level allow-list (a mutable JS Set)
    pc,                    \* pc[r]: where invocation r stands
    baseImagePath,         \* the handler's locals, per invocation
    primaryMuscles,
    secondaryMuscles,
    primaryColorRgb,
    secondaryColorRgb,
    promises,              \* primaryPromises followed by secondaryPromises
    allLayers,
    compositeLayers,
    caught,                \* the exception the catch block received, if any
    responses,             \* what the handler returned (a sequence: at most one)
    warnings,              \* console.warn calls made on behalf of r, in order
    fsCalls,               \* path.resolve / fs.existsSync / sharp(path) calls of r
    settleOrder            \* the positions of `promises`, in the order they settled

vars == <<reqs, event, files, availableMuscleGroups, pc, baseImagePath,
          primaryMuscles, secondaryMuscles, primaryColorRgb, secondaryColorRgb,
          promises, allLayers, compositeLayers, caught, responses, warnings,
          fsCalls, settleOrder>>

locals == <<baseImagePath, primaryMuscles, secondaryMuscles, primaryColorRgb,
            secondaryColorRgb>>

env == <<reqs, event, files, availableMuscleGroups>>

-----------------------------------------------------------------------------
(* Bounds of the model *)

\* chunks of primary_muscles and secondary_muscles together, one invocation
MaxLen == 3
\* the same, for each of two concurrent invocations
MaxLenConc == 1

-----------------------------------------------------------------------------
(* Strings *)

Comma == ","

RECURSIVE Text(_)
\* the JavaScript string a chunk sequence stands for
Text(s) == IF s = <<>> THEN "" ELSE Head(s) \o Text(Tail(s))

RECURSIVE Split(_)
\* String.prototype.split(','): one token more than there are commas
Split(s) ==
    IF s = <<>> THEN <<"">>
    ELSE LET rest == Split(Tail(s))
         IN  IF Head(s) = Comma
             THEN <<"">> \o rest
             ELSE <<Head(s) \o Head(rest)>> \o Tail(rest)

\* variant: a test that every token passes
TruthyAlways(token) == TRUE

\* Boolean(token): the empty string is the only falsy string
Truthy(token) == token /= ""

\* variant: the tokens are not filtered
KeepAllTokens(tokens) == tokens

\* .filter(Boolean)
FilterBoolean(tokens) == SelectSeq(tokens, Truthy)

\* primary_muscles.split(',').filter(Boolean)
ParseMuscles(s) == FilterBoolean(Split(s))

-----------------------------------------------------------------------------
(* Numbers *)

Num(n) == [nan |-> FALSE, num |-> n]
NaN == [nan |-> TRUE, num |-> 0]
Undefined == [nan |-> TRUE, num |-> -1]

\* Number(token), on the tokens the colour parameters of the model hold
Number(token) ==
    CASE token = "255" -> Num(255)
      [] token = "211" -> Num(211)
      [] token = "152" -> Num(152)
      [] token = "144" -> Num(144)
      [] token = "7"   -> Num(7)
      [] token = "0"   -> Num(0)
      [] token = ""    -> Num(0)
      [] OTHER         -> NaN

\* primary_color.split(',').map(Number)
ParseColor(s) == LET t == Split(s) IN [i \in 1..Len(t) |-> Number(t[i])]

\* colorRgb[i] of a JavaScript array (0-based in the source, 1-based here)
At(a, i) == IF i \in 1..Len(a) THEN a[i] ELSE Undefined

-----------------------------------------------------------------------------
(* The module-level allow-list and the helper createTintedLayer *)

MuscleGroups ==
    { "all", "all_lower", "all_upper", "abductors", "abs", "adductors", "back",
      "back_lower", "back_upper", "biceps", "calfs", "chest", "core", "core_lower",
      "core_upper", "forearms", "gluteus", "hamstring", "hands", "latissimus",
      "legs", "neck", "quadriceps", "shoulders", "shoulders_back", "shoulders_front",
      "triceps" }

\* path.resolve(__dirname, `../images/${muscle}.png`)
MusclePath(muscle) == "../images/" \o muscle \o ".png"

NullValue == [kind |-> "null", input |-> "", tint |-> <<>>]

\* the buffer sharp(musclePath).tint({r, g, b}).toBuffer() resolves to
TintedBuffer(musclePath, colorRgb) ==
    [kind |-> "buffer", input |-> musclePath,
     tint |-> <<At(colorRgb, 1), At(colorRgb, 2), At(colorRgb, 3)>>]

Resolved(v) == [state |-> "fulfilled", value |-> v]
Pending(v) == [state |-> "pending", value |-> v]
Rejected(v) == [state |-> "rejected", value |-> v]

Warn(text, muscle) == [text |-> text, muscle |-> muscle]
FsCall(op, path) == [op |-> op, path |-> path]

\* variant: the allow-list is not consulted
AnyMuscle(groups, muscle) == TRUE

\* the allow-list test of createTintedLayer
IsAvailable(groups, muscle) == muscle \in groups

\* The synchronous body of createTintedLayer(muscle, colorRgb), given the
\* allow-list and the files present: the promise it returns, the warnings
\* it logs and the file-system calls it makes.
createTintedLayer(groups, present, muscle, colorRgb) ==
    IF ~IsAvailable(groups, muscle)
    THEN [promise |-> Resolved(NullValue),
          warn    |-> <<Warn("Invalid muscle group requested", muscle)>>,
          fs      |-> {}]
    ELSE LET musclePath == MusclePath(muscle) IN
         IF musclePath \notin present
         THEN [promise |-> Resolved(NullValue),
               warn    |-> <<Warn("Image file not found for muscle", muscle)>>,
               fs      |-> {FsCall("resolve", musclePath),
                            FsCall("existsSync", musclePath)}]
         ELSE [promise |-> Pending(TintedBuffer(musclePath, colorRgb)),
               warn    |-> <<>>,
               fs      |-> {FsCall("resolve", musclePath),
                            FsCall("existsSync", musclePath),
                            FsCall("sharp", musclePath)}]

\* muscles.map(muscle => createTintedLayer(muscle, colorRgb))
MapCreate(groups, present, muscles, colorRgb) ==
    [i \in 1..Len(muscles) |-> createTintedLayer(groups, present, muscles[i], colorRgb)]

RECURSIVE WarningsOf(_)
WarningsOf(calls) ==
    IF calls = <<>> THEN <<>> ELSE Head(calls).warn \o WarningsOf(Tail(calls))

FsCallsOf(calls) == UNION {calls[i].fs : i \in 1..Len(calls)}

PromisesOf(calls) == [i \in 1..Len(calls) |-> calls[i].promise]

-----------------------------------------------------------------------------
(* The handler *)

ParamNames ==
    {"primary_muscles", "secondary_muscles", "primary_color", "secondary_color",
     "transparent"}

\* the defaults of the destructuring assignment
DefaultOf(name) ==
    CASE name = "primary_muscles"   -> <<>>
      [] name = "secondary_muscles" -> <<>>
      [] name = "primary_color"     -> <<"255", Comma, "152", Comma, "0">>
      [] name = "secondary_color"   -> <<"255", Comma, "211", Comma, "144">>
      [] name = "transparent"       -> <<"0">>

\* const { name = default } = obj
Param(obj, name) == IF name \in DOMAIN obj THEN obj[name] ELSE DefaultOf(name)

TransparentBase == "../images/baseImage_transparent.png"
OpaqueBase == "../images/baseImage.png"

\* variant: every value but "0" selects the transparent base
ChooseBaseUnlessZero(transparent) ==
    IF Text(transparent) /= "0" THEN TransparentBase ELSE OpaqueBase

\* transparent === '1' ? ... : ...
ChooseBase(transparent) ==
    IF Text(transparent) = "1" THEN TransparentBase ELSE OpaqueBase

\* variant: only the primary promises are handed to Promise.all
PrimaryOnlyInput(np, ns) == [k \in 1..np |-> k]

\* [...primaryPromises, ...secondaryPromises], the array handed to
\* Promise.all, as positions of `promises`: the np primary ones first
PromiseAllInput(np, ns) == [k \in 1..(np + ns) |-> k]

\* variant: the values are gathered as the promises settle
ValuesInSettleOrder(ps, input, settled) == [k \in 1..Len(settled) |-> ps[settled[k]].value]

\* What Promise.all resolves to: the values of the promises of `input`, in
\* the order of `input`, whatever the order `settled` in which they settled.
PromiseAllValues(ps, input, settled) == [k \in 1..Len(input) |-> ps[input[k]].value]

\* variant: one module-level list, which holds what the other invocations pushed
ModuleLevelLayers(all, r) ==
    IF DOMAIN all = {r} THEN <<>> ELSE all[CHOOSE o \in DOMAIN all \ {r} : TRUE]

\* const compositeLayers = []: the list of invocation r starts empty,
\* whatever the lists `all` of the invocations in flight hold
NewCompositeLayers(all, r) == <<>>

\* the positions of the promises that are settled already, in creation order
SettledAtCreation(ps) ==
    SelectSeq([i \in 1..Len(ps) |-> i], LAMBDA i : ps[i].state /= "pending")

RECURSIVE CollectDistinctLayers(_)
\* variant: a buffer equal to a later one is pushed once
CollectDistinctLayers(layers) ==
    IF layers = <<>> THEN <<>>
    ELSE LET rest == CollectDistinctLayers(Tail(layers))
         IN  IF Head(layers).kind /= "null"
                /\ \A k \in 1..Len(rest) : rest[k].input /= Head(layers)
             THEN <<[input |-> Head(layers)]>> \o rest
             ELSE rest

RECURSIVE CollectLayers(_)
\* for (const layerBuffer of allLayers) if (layerBuffer) compositeLayers.push(...)
CollectLayers(layers) ==
    IF layers = <<>> THEN <<>>
    ELSE IF Head(layers).kind /= "null"
         THEN <<[input |-> Head(layers)]>> \o CollectLayers(Tail(layers))
         ELSE CollectLayers(Tail(layers))

NoError == [site |-> "none", message |-> ""]
Error(site, message) == [site |-> site, message |-> message]

\* the value returned on success
SuccessResponse(base, layers) ==
    [statusCode |-> 200,
     headers |-> [ContentType |-> "image/png"],
     body |-> [encoding |-> "base64", base |-> base, composite |-> layers],
     isBase64Encoded |-> TRUE]

\* the value returned by the catch block
ErrorResponse(error) ==
    [statusCode |-> 500,
     headers |-> [ContentType |-> "none"],
     body |-> [encoding |-> "json", error |-> "Failed to generate image.",
               details |-> error.message],
     isBase64Encoded |-> FALSE]

\* variant: the parameters are read before the try block is entered
InTryAfterParams(site) == site \in {"tint", "composite"}

\* the sites inside the try block (lines 38-88): every throw and every
\* rejected await of the handler lies there
InTry(site) == site \in {"params", "tint", "composite"}

\* An exception raised in the handler at error.site: the catch block returns
\* the error response; outside a try the async handler's own promise rejects.
Raise(r, error) ==
    IF InTry(error.site)
    THEN /\ caught' = [caught EXCEPT ![r] = error]
         /\ responses' = [responses EXCEPT ![r] = Append(@, ErrorResponse(error))]
         /\ pc' = [pc EXCEPT ![r] = "done"]
    ELSE /\ pc' = [pc EXCEPT ![r] = "rejected"]
         /\ UNCHANGED <<caught, responses>>

\* Lines 38-67 with event.queryStringParameters null or undefined: the
\* destructuring assignment throws a TypeError.
InvokeNoParams(r) ==
    /\ pc[r] = "start"
    /\ event[r].queryStringParameters.tag = "null"
    /\ Raise(r, Error("params", "Cannot destructure 'event.queryStringParameters'"))
    /\ UNCHANGED <<env, locals, promises, allLayers, compositeLayers, warnings, fsCalls,
                   settleOrder>>

\* Lines 38-67: the handler from its call to its first await.  The parameters
\* are read, the base is chosen, the lists and colours are parsed and every
\* createTintedLayer call is made (primary list first) before Promise.all.
Invoke(r) ==
    /\ pc[r] = "start"
    /\ event[r].queryStringParameters.tag = "object"
    /\ LET q  == event[r].queryStringParameters.fields
           pm == ParseMuscles(Param(q, "primary_muscles"))
           sm == ParseMuscles(Param(q, "secondary_muscles"))
           pcol == ParseColor(Param(q, "primary_color"))
           scol == ParseColor(Param(q, "secondary_color"))
           pcalls == MapCreate(availableMuscleGroups, files, pm, pcol)
           scalls == MapCreate(availableMuscleGroups, files, sm, scol)
       IN  /\ baseImagePath' = [baseImagePath EXCEPT ![r] = ChooseBase(Param(q, "transparent"))]
           /\ primaryMuscles' = [primaryMuscles EXCEPT ![r] = pm]
           /\ secondaryMuscles' = [secondaryMuscles EXCEPT ![r] = sm]
           /\ primaryColorRgb' = [primaryColorRgb EXCEPT ![r] = pcol]
           /\ secondaryColorRgb' = [secondaryColorRgb EXCEPT ![r] = scol]
           /\ promises' = [promises EXCEPT ![r] = PromisesOf(pcalls) \o PromisesOf(scalls)]
           /\ settleOrder' = [settleOrder EXCEPT ![r] =
                                 SettledAtCreation(PromisesOf(pcalls) \o PromisesOf(scalls))]
           /\ warnings' = [warnings EXCEPT ![r] = WarningsOf(pcalls) \o WarningsOf(scalls)]
           /\ fsCalls' = [fsCalls EXCEPT ![r] = FsCallsOf(pcalls) \cup FsCallsOf(scalls)]
    /\ pc' = [pc EXCEPT ![r] = "awaitAll"]
    /\ UNCHANGED <<env, allLayers, compositeLayers, caught, responses>>

\* a sharp tint task finishes: its promise is fulfilled with the buffer
TintFulfil(r, i) ==
    /\ i \in 1..Len(promises[r])
    /\ promises[r][i].state = "pending"
    /\ promises' = [promises EXCEPT ![r][i] = Resolved(@.value)]
    /\ settleOrder' = [settleOrder EXCEPT ![r] = Append(@, i)]
    /\ UNCHANGED <<env, pc, locals, allLayers, compositeLayers, caught, responses,
                   warnings, fsCalls>>

\* a sharp tint task fails (the file cannot be read or decoded, or the tint
\* is refused): its promise is rejected
TintReject(r, i) ==
    /\ i \in 1..Len(promises[r])
    /\ promises[r][i].state = "pending"
    /\ promises' = [promises EXCEPT ![r][i] = Rejected(@.value)]
    /\ settleOrder' = [settleOrder EXCEPT ![r] = Append(@, i)]
    /\ UNCHANGED <<env, pc, locals, allLayers, compositeLayers, caught, responses,
                   warnings, fsCalls>>

\* Lines 67-80: Promise.all is fulfilled once every promise handed to it is;
\* the handler resumes, keeps the truthy results and starts the composite.
ResumeFulfilled(r) ==
    /\ pc[r] = "awaitAll"
    /\ LET input == PromiseAllInput(Len(primaryMuscles[r]), Len(secondaryMuscles[r]))
           values == PromiseAllValues(promises[r], input, settleOrder[r])
       IN  /\ \A k \in 1..Len(input) : promises[r][input[k]].state = "fulfilled"
           /\ allLayers' = [allLayers EXCEPT ![r] = values]
           /\ compositeLayers' = [compositeLayers EXCEPT ![r] =
                                     NewCompositeLayers(compositeLayers, r)
                                         \o CollectLayers(values)]
    /\ pc' = [pc EXCEPT ![r] = "awaitComposite"]
    /\ UNCHANGED <<env, locals, promises, caught, responses, warnings, fsCalls,
                   settleOrder>>

\* Lines 67, 89-95: Promise.all is rejected as soon as one promise handed to
\* it is, whatever the state of the others; the await throws into the catch.
ResumeRejected(r) ==
    /\ pc[r] = "awaitAll"
    /\ LET input == PromiseAllInput(Len(primaryMuscles[r]), Len(secondaryMuscles[r]))
       IN  \E k \in 1..Len(input) :
              /\ promises[r][input[k]].state = "rejected"
              /\ Raise(r, Error("tint", "Input file is missing or of an unsupported image format"))
    /\ UNCHANGED <<env, locals, promises, allLayers, compositeLayers, warnings, fsCalls,
                   settleOrder>>

\* Lines 77-88: the composite and PNG encoding succeed; the handler returns
CompositeFulfil(r) ==
    /\ pc[r] = "awaitComposite"
    /\ responses' = [responses EXCEPT ![r] =
                        Append(@, SuccessResponse(baseImagePath[r], compositeLayers[r]))]
    /\ pc' = [pc EXCEPT ![r] = "done"]
    /\ UNCHANGED <<env, locals, promises, allLayers, compositeLayers, caught,
                   warnings, fsCalls, settleOrder>>

\* Lines 77-80, 89-95: the base image cannot be read or decoded, or the
\* composite or the encoding fails; the await throws into the catch.
CompositeReject(r) ==
    /\ pc[r] = "awaitComposite"
    /\ Raise(r, Error("composite", "Input file is missing"))
    /\ UNCHANGED <<env, locals, promises, allLayers, compositeLayers, warnings, fsCalls,
                   settleOrder>>

Next ==
    \/ \E r \in reqs : InvokeNoParams(r)
    \/ \E r \in reqs : Invoke(r)
    \/ \E r \in reqs : \E i \in 1..Len(promises[r]) : TintFulfil(r, i)
    \/ \E r \in reqs : \E i \in 1..Len(promises[r]) : TintReject(r, i)
    \/ \E r \in reqs : ResumeFulfilled(r)
    \/ \E r \in reqs : ResumeRejected(r)
    \/ \E r \in reqs : CompositeFulfil(r)
    \/ \E r \in reqs : CompositeReject(r)

-----------------------------------------------------------------------------
(* Requests *)

SeqsUpTo(A, n) == UNION {[1..k -> A] : k \in 0..n}

\* the pairs <<primary_muscles, secondary_muscles>> of at most n chunks together
MusclePairs(A, n) ==
    UNION {{<<p, s>> : p \in [1..k -> A], s \in SeqsUpTo(A, n - k)} : k \in 0..n}

\* a parameter is either absent from the query string or present with a value
Present(v) == {v}
Missing == {}

\* an empty muscle parameter may as well be left out of the query string
MuscleOptions(v, omit) == IF omit /\ v = <<>> THEN {Missing, Present(v)} ELSE {Present(v)}

\* the queryStringParameters object holding the parameters that are present
QueryObject(o) ==
    [tag |-> "object",
     fields |-> [n \in {m \in ParamNames : o[m] /= Missing} |-> CHOOSE v \in o[n] : TRUE]]

NullParams == [tag |-> "null", fields |-> <<>>]

MuscleChunks == {Comma, "back", "abs", " "}

TransparentValues == {Missing, Present(<<"0">>), Present(<<"1">>),
                      Present(<<"1", "0">>), Present(<<"true">>)}

CustomColors == <<Present(<<"7", Comma, "0", Comma, "255">>), Present(<<"0", Comma, "x">>)>>

ColorValues == {<<Missing, Missing>>, CustomColors}

\* <<transparent, primary_color, secondary_color>>
Profiles == {<<t, c[1], c[2]>> : t \in TransparentValues, c \in ColorValues}

ConcProfiles == {<<Missing, Missing, Missing>>,
                 <<Present(<<"1">>), CustomColors[1], CustomColors[2]>>}

\* the events whose muscle parameters are ps[1] and ps[2]
EventsOf(ps, profiles, omit) ==
    {[queryStringParameters |->
        QueryObject([primary_muscles |-> pm, secondary_muscles |-> sm,
                     transparent |-> f[1], primary_color |-> f[2],
                     secondary_color |-> f[3]])] :
        pm \in MuscleOptions(ps[1], omit), sm \in MuscleOptions(ps[2], omit),
        f \in profiles}

Events(n, profiles, omit) ==
    {[queryStringParameters |-> NullParams]} \cup
    UNION {EventsOf(ps, profiles, omit) : ps \in MusclePairs(MuscleChunks, n)}

\* the muscle images that may or may not be present, and a stray file whose
\* name is no muscle group
AssetSets == SUBSET {MusclePath("back"), MusclePath("abs"), MusclePath(" ")}

InitWith(R, E, F) ==
    /\ reqs = R
    /\ event \in [R -> E]
    /\ files \in F
    /\ availableMuscleGroups = MuscleGroups
    /\ pc = [r \in R |-> "start"]
    /\ baseImagePath = [r \in R |-> ""]
    /\ primaryMuscles = [r \in R |-> <<>>]
    /\ secondaryMuscles = [r \in R |-> <<>>]
    /\ primaryColorRgb = [r \in R |-> <<>>]
    /\ secondaryColorRgb = [r \in R |-> <<>>]
    /\ promises = [r \in R |-> <<>>]
    /\ allLayers = [r \in R |-> <<>>]
    /\ compositeLayers = [r \in R |-> <<>>]
    /\ caught = [r \in R |-> NoError]
    /\ responses = [r \in R |-> <<>>]
    /\ warnings = [r \in R |-> <<>>]
    /\ fsCalls = [r \in R |-> {}]
    /\ settleOrder = [r \in R |-> <<>>]

\* one invocation
Init == InitWith({1}, Events(MaxLen, Profiles, TRUE), AssetSets)

Spec == Init /\ [][Next]_vars

ConcAssetSets ==
    {{MusclePath("back"), MusclePath("abs"), MusclePath(" ")}, {MusclePath("back")}}

\* two invocations in flight at once, on one module instance
InitConc == InitWith({1, 2}, Events(MaxLenConc, ConcProfiles, FALSE), ConcAssetSets)

SpecConc == InitConc /\ [][Next]_vars

-----------------------------------------------------------------------------
(* Vocabulary of the properties *)

\* invocation r read its parameters and went on to line 67
Invoked(r) == pc[r] /= "start" /\ event[r].queryStringParameters.tag = "object"

Fields(r) == event[r].queryStringParameters.fields

\* the value of a parameter as the caller sent it, the empty string if absent
Raw(r, name) == IF name \in DOMAIN Fields(r) THEN Fields(r)[name] ELSE <<>>

\* invocation r returned a response with this status code
Returned(r, code) ==
    pc[r] = "done" /\ Len(responses[r]) = 1 /\ responses[r][1].statusCode = code

\* the loop of lines 70-74 has run: compositeLayers[r] is what is composited
Collected(r) ==
    \/ pc[r] = "awaitComposite"
    \/ pc[r] = "done" /\ caught[r].site \in {"none", "composite"}

\* the identifiers of invocation r, in the order of the tasks created for them
Muscles(r) == primaryMuscles[r] \o secondaryMuscles[r]

\* an identifier resolves: it is in the fixed allow-list and its image exists
Resolves(m) == m \in MuscleGroups /\ MusclePath(m) \in files

Rgb(colorRgb) == <<At(colorRgb, 1), At(colorRgb, 2), At(colorRgb, 3)>>

\* the layer of muscle m tinted with colorRgb
LayerOf(m, colorRgb) ==
    [input |-> [kind |-> "buffer", input |-> MusclePath(m), tint |-> Rgb(colorRgb)]]

RECURSIVE LayersFor(_, _)
\* one layer per resolving identifier of the list, in the order of the list
LayersFor(muscles, colorRgb) ==
    IF muscles = <<>> THEN <<>>
    ELSE (IF Resolves(Head(muscles)) THEN <<LayerOf(Head(muscles), colorRgb)>> ELSE <<>>)
             \o LayersFor(Tail(muscles), colorRgb)

\* the primary layers followed by the secondary layers
RequestOrderLayers(r) ==
    LayersFor(primaryMuscles[r], primaryColorRgb[r])
        \o LayersFor(secondaryMuscles[r], secondaryColorRgb[r])

-----------------------------------------------------------------------------
(* C1 *)

\* C1: whatever the order in which the tint tasks finish, the list handed to
\* the composite step holds one layer per resolving primary identifier, in
\* the order of primary_muscles and tinted with the primary colour, followed
\* by one per resolving secondary identifier, in the order of
\* secondary_muscles and tinted with the secondary colour.
C1_RequestOrder ==
    \A r \in reqs :
        /\ Collected(r) => compositeLayers[r] = RequestOrderLayers(r)
        /\ Returned(r, 200) => responses[r][1].body.composite = RequestOrderLayers(r)

\* two different layers are composited in request order although the tint
\* task of the second finished before that of the first
C1_Witness ==
    \E r \in reqs :
        /\ Returned(r, 200)
        /\ Len(compositeLayers[r]) >= 2
        /\ compositeLayers[r][1] /= compositeLayers[r][2]
        /\ \E a, b \in 1..Len(settleOrder[r]) :
              /\ a < b
              /\ settleOrder[r][a] > settleOrder[r][b]
              /\ promises[r][settleOrder[r][a]].value.kind = "buffer"
              /\ promises[r][settleOrder[r][b]].value.kind = "buffer"

-----------------------------------------------------------------------------
(* C2 *)

\* C2: for an identifier outside the fixed allow-list createTintedLayer
\* returns null without resolving a path, testing a file's existence or
\* opening a file for it, and the identifier is never a layer of the
\* composite list or of the response.
C2_UnknownNeverResolved ==
    \A r \in reqs : \A i \in 1..Len(promises[r]) :
        LET m == Muscles(r)[i] IN
        m \notin MuscleGroups =>
            /\ promises[r][i] = Resolved(NullValue)
            /\ \A c \in fsCalls[r] : c.path /= MusclePath(m)
            /\ \A k \in 1..Len(compositeLayers[r]) :
                  compositeLayers[r][k].input.input /= MusclePath(m)
            /\ Returned(r, 200) =>
                  \A k \in 1..Len(responses[r][1].body.composite) :
                      responses[r][1].body.composite[k].input.input /= MusclePath(m)

\* a request succeeds with a layer, having named an identifier outside the
\* allow-list for which a file exists under ../images
C2_Witness ==
    \E r \in reqs :
        /\ Returned(r, 200)
        /\ compositeLayers[r] /= <<>>
        /\ \E i \in 1..Len(Muscles(r)) :
              /\ Muscles(r)[i] \notin MuscleGroups
              /\ MusclePath(Muscles(r)[i]) \in files

-----------------------------------------------------------------------------
(* C3 *)

\* C3: a failure of one muscle layer never fails the request: a request
\* whose parameters were read ends with the error response only when the
\* base canvas or the final composite and encoding failed.
C3_LayerFailureNeverFatal ==
    \A r \in reqs :
        (Invoked(r) /\ Returned(r, 500)) => caught[r].site = "composite"

-----------------------------------------------------------------------------
(* C4 *)

\* the steps by which an invocation that awaits Promise.all goes on
StepAwaitingAll(r) ==
    \/ \E i \in 1..Len(promises[r]) : TintFulfil(r, i) \/ TintReject(r, i)
    \/ ResumeFulfilled(r)
    \/ ResumeRejected(r)

\* the steps by which an invocation that awaits the composite goes on
StepAwaitingComposite(r) == CompositeFulfil(r) \/ CompositeReject(r)

\* C4: the handler never rejects and returns at most one response, exactly
\* one once it has ended, and it can always go on until it has ended; an
\* exception raised while handling is caught and gives status 500 with an
\* error message and the exception's message as details, never with a PNG
\* body; status 200 carries the composite of the chosen base and the
\* collected layers as image/png.
C4_OneStructuredResponse ==
    \A r \in reqs :
        /\ pc[r] /= "rejected"
        /\ Len(responses[r]) <= 1
        /\ pc[r] = "done" <=> Len(responses[r]) = 1
        /\ pc[r] \in {"start", "awaitAll", "awaitComposite", "done"}
        /\ pc[r] = "awaitAll" => ENABLED StepAwaitingAll(r)
        /\ pc[r] = "awaitComposite" => ENABLED StepAwaitingComposite(r)
        /\ caught[r] /= NoError => Returned(r, 500)
        /\ Returned(r, 500) =>
              /\ caught[r] /= NoError
              /\ responses[r][1].body.encoding = "json"
              /\ responses[r][1].body.error = "Failed to generate image."
              /\ responses[r][1].body.details = caught[r].message
              /\ responses[r][1].headers.ContentType /= "image/png"
        /\ Returned(r, 200) =>
              /\ caught[r] = NoError
              /\ responses[r][1].headers.ContentType = "image/png"
              /\ responses[r][1].body.encoding = "base64"
              /\ responses[r][1].body.base = baseImagePath[r]
              /\ responses[r][1].body.composite = compositeLayers[r]
        /\ pc[r] = "done" => Returned(r, 200) \/ Returned(r, 500)

\* an invocation without query parameters ended with the error response
C4_Witness ==
    \E r \in reqs :
        /\ event[r].queryStringParameters.tag = "null"
        /\ Returned(r, 500)
        /\ caught[r].site = "params"

-----------------------------------------------------------------------------
(* C5 *)

\* a muscle parameter that holds no identifier: absent, empty or only commas
OnlyCommas(s) == \A i \in 1..Len(s) : s[i] = Comma

BothListsEmpty(r) ==
    OnlyCommas(Raw(r, "primary_muscles")) /\ OnlyCommas(Raw(r, "secondary_muscles"))

\* C5 as stated: a request whose two muscle lists are empty, once it has
\* ended, has returned the success response with no layer applied.
C5_EmptyListsSucceed ==
    \A r \in reqs :
        (Invoked(r) /\ BothListsEmpty(r) /\ pc[r] = "done") =>
            /\ Returned(r, 200)
            /\ responses[r][1].body.composite = <<>>

\* C5 amended: for a request whose two muscle lists are empty no
\* createTintedLayer call is made, nothing is logged or looked up, the
\* composite list is empty and no tint failure can occur; once ended, the
\* handler has returned the success response (200, image/png) holding the
\* selected base with no layer, unless reading the base or the final
\* composite and encoding failed, in which case it returned status 500.
C5_EmptyListsBaseOnly ==
    \A r \in reqs :
        (Invoked(r) /\ BothListsEmpty(r)) =>
            /\ promises[r] = <<>>
            /\ warnings[r] = <<>>
            /\ fsCalls[r] = {}
            /\ compositeLayers[r] = <<>>
            /\ caught[r].site \in {"none", "composite"}
            /\ pc[r] = "done" =>
                  \/ /\ caught[r].site = "composite"
                     /\ Returned(r, 500)
                  \/ /\ caught[r].site = "none"
                     /\ Returned(r, 200)
                     /\ responses[r][1].headers.ContentType = "image/png"
                     /\ responses[r][1].body.base = baseImagePath[r]
                     /\ responses[r][1].body.base \in {TransparentBase, OpaqueBase}
                     /\ responses[r][1].body.composite = <<>>

\* a request whose primary_muscles holds only commas and whose
\* secondary_muscles is absent returned the bare base
C5_Witness ==
    \E r \in reqs :
        /\ Invoked(r)
        /\ Len(Raw(r, "primary_muscles")) >= 2
        /\ "secondary_muscles" \notin DOMAIN Fields(r)
        /\ BothListsEmpty(r)
        /\ Returned(r, 200)
        /\ responses[r][1].body.composite = <<>>

-----------------------------------------------------------------------------
(* C6 *)

\* C6: the transparent base is chosen exactly when the transparent parameter
\* is present and is the string "1"; otherwise (absent, "0", anything else)
\* the opaque base is; the choice reads nothing else of the request, and the
\* success response composites onto the chosen base.
C6_BaseSelection ==
    \A r \in reqs :
        Invoked(r) =>
            /\ baseImagePath[r] =
                  IF "transparent" \in DOMAIN Fields(r) /\ Fields(r).transparent = <<"1">>
                  THEN TransparentBase
                  ELSE OpaqueBase
            /\ Returned(r, 200) => responses[r][1].body.base = baseImagePath[r]

\* a request with layers and custom colours whose transparent parameter is
\* "10" was composited onto the opaque base
C6_Witness ==
    \E r \in reqs :
        /\ Returned(r, 200)
        /\ "transparent" \in DOMAIN Fields(r)
        /\ Text(Fields(r).transparent) = "10"
        /\ "primary_color" \in DOMAIN Fields(r)
        /\ compositeLayers[r] /= <<>>
        /\ responses[r][1].body.base = OpaqueBase

-----------------------------------------------------------------------------
(* C7 *)

\* how often m occurs in a list
Occurrences(m, muscles) == Cardinality({i \in 1..Len(muscles) : muscles[i] = m})

\* how many entries of a list resolve
ResolvingEntries(muscles) == Cardinality({i \in 1..Len(muscles) : Resolves(muscles[i])})

\* C7: the composite list holds as many layers as there are resolving
\* entries in the two lists, duplicates counted: the primary ones first, with
\* the primary colour, then the secondary ones with the secondary colour; a
\* resolving identifier has as many layers in each part as it has entries in
\* that list.
C7_DuplicatesKept ==
    \A r \in reqs :
        Collected(r) =>
            LET L  == compositeLayers[r]
                np == ResolvingEntries(primaryMuscles[r])
                ns == ResolvingEntries(secondaryMuscles[r])
            IN  /\ Len(L) = np + ns
                /\ \A k \in 1..Len(L) :
                      L[k].input.tint =
                          IF k <= np THEN Rgb(primaryColorRgb[r]) ELSE Rgb(secondaryColorRgb[r])
                /\ \A i \in 1..Len(Muscles(r)) :
                      LET m == Muscles(r)[i] IN
                      Resolves(m) =>
                          /\ Cardinality({k \in 1..Len(L) :
                                 k <= np /\ L[k].input.input = MusclePath(m)})
                                 = Occurrences(m, primaryMuscles[r])
                          /\ Cardinality({k \in 1..Len(L) :
                                 k > np /\ L[k].input.input = MusclePath(m)})
                                 = Occurrences(m, secondaryMuscles[r])

\* an identifier listed twice in primary_muscles gave two equal layers
C7_Witness ==
    \E r \in reqs :
        /\ Returned(r, 200)
        /\ Len(primaryMuscles[r]) = 2
        /\ primaryMuscles[r][1] = primaryMuscles[r][2]
        /\ Len(compositeLayers[r]) = 2
        /\ compositeLayers[r][1] = compositeLayers[r][2]

\* an identifier listed in both lists gave a primary and a secondary layer
C7_WitnessBothLists ==
    \E r \in reqs :
        /\ Returned(r, 200)
        /\ Len(primaryMuscles[r]) = 1
        /\ primaryMuscles[r] = secondaryMuscles[r]
        /\ Len(compositeLayers[r]) = 2
        /\ compositeLayers[r][1].input.tint /= compositeLayers[r][2].input.tint

-----------------------------------------------------------------------------
(* C8 *)

\* what invocation r composites, from its own event and the files alone
OwnLayers(r) ==
    LayersFor(ParseMuscles(Param(Fields(r), "primary_muscles")),
              ParseColor(Param(Fields(r), "primary_color")))
        \o LayersFor(ParseMuscles(Param(Fields(r), "secondary_muscles")),
                     ParseColor(Param(Fields(r), "secondary_color")))

OwnBase(r) == ChooseBase(Param(Fields(r), "transparent"))

\* C8: with two invocations interleaved in any way, the allow-list stays as
\* it was loaded, and the base, the tint tasks, the composite list and the
\* response of each invocation are those its own event determines: nothing
\* of the other invocation appears in them.
C8_Independent ==
    /\ availableMuscleGroups = MuscleGroups
    /\ \A r \in reqs :
          Invoked(r) =>
              /\ baseImagePath[r] = OwnBase(r)
              /\ \A i \in 1..Len(promises[r]) :
                    \/ promises[r][i].value = NullValue
                    \/ \E k \in 1..Len(OwnLayers(r)) :
                          promises[r][i].value = OwnLayers(r)[k].input
              /\ Collected(r) => compositeLayers[r] = OwnLayers(r)
              /\ Returned(r, 200) =>
                    responses[r][1] = SuccessResponse(OwnBase(r), OwnLayers(r))

\* both invocations are in flight with layers of different muscles, colours
\* and bases: one is compositing while the other still waits for a tint task
C8_Witness ==
    \E r, o \in reqs :
        /\ r /= o
        /\ pc[r] = "awaitComposite"
        /\ compositeLayers[r] /= <<>>
        /\ pc[o] = "awaitAll"
        /\ \E i \in 1..Len(promises[o]) :
              /\ promises[o][i].state = "pending"
              /\ promises[o][i].value.input /= compositeLayers[r][1].input.input
              /\ promises[o][i].value.tint /= compositeLayers[r][1].input.tint
        /\ baseImagePath[r] /= baseImagePath[o]

-----------------------------------------------------------------------------
(* C9 *)

\* C9: when the handler awaits Promise.all a task has been created for
\* every identifier of both lists, and while the composite runs, or once
\* the success response is returned, no tint task of the request is pending.
C9_Barrier ==
    \A r \in reqs :
        /\ pc[r] = "awaitAll" =>
              Len(promises[r]) = Len(primaryMuscles[r]) + Len(secondaryMuscles[r])
        /\ (pc[r] = "awaitComposite" \/ Returned(r, 200)) =>
              /\ Len(promises[r]) = Len(primaryMuscles[r]) + Len(secondaryMuscles[r])
              /\ \A i \in 1..Len(promises[r]) : promises[r][i].state = "fulfilled"

\* the composite runs after a primary and a secondary tint task finished
C9_Witness ==
    \E r \in reqs :
        /\ pc[r] = "awaitComposite"
        /\ Len(primaryMuscles[r]) >= 1
        /\ Len(secondaryMuscles[r]) >= 1
        /\ promises[r][1].value.kind = "buffer"
        /\ promises[r][Len(promises[r])].value.kind = "buffer"

-----------------------------------------------------------------------------
(* C10 *)

\* a token of nothing but spaces, the empty token included
IsBlank(token) == \E k \in 0..(MaxLen + 1) : token = Text([i \in 1..k |-> " "])

\* the positions of the non-empty tokens of a token list, in increasing order
NonEmptyPositions(tokens) ==
    SelectSeq([i \in 1..Len(tokens) |-> i], LAMBDA i : tokens[i] /= "")

\* `kept` is `tokens` without its empty tokens, the others in their order
DropsEmptyOnly(tokens, kept) ==
    /\ Len(kept) = Len(NonEmptyPositions(tokens))
    /\ \A j \in 1..Len(kept) : kept[j] = tokens[NonEmptyPositions(tokens)[j]]

\* C10 as stated: no empty or whitespace-only token reaches the validator:
\* none is in the parsed lists and no warning names one.
C10_BlankDropped ==
    \A r \in reqs :
        /\ \A i \in 1..Len(Muscles(r)) : ~IsBlank(Muscles(r)[i])
        /\ \A k \in 1..Len(warnings[r]) : ~IsBlank(warnings[r][k].muscle)

\* C10 amended: exactly the empty tokens are dropped.  The parsed lists are
\* the comma-separated tokens without the empty ones, in their order; one
\* createTintedLayer call is made per remaining token and no warning names
\* the empty token.  A whitespace-only token is not dropped: it reaches the
\* validator, which warns that it is an invalid muscle group and returns null.
C10_EmptyDropped ==
    \A r \in reqs :
        Invoked(r) =>
            /\ DropsEmptyOnly(Split(Raw(r, "primary_muscles")), primaryMuscles[r])
            /\ DropsEmptyOnly(Split(Raw(r, "secondary_muscles")), secondaryMuscles[r])
            /\ Len(promises[r]) = Len(Muscles(r))
            /\ \A k \in 1..Len(warnings[r]) : warnings[r][k].muscle /= ""
            /\ \A i \in 1..Len(Muscles(r)) :
                  (IsBlank(Muscles(r)[i]) /\ Muscles(r)[i] /= "") =>
                      /\ promises[r][i] = Resolved(NullValue)
                      /\ \E k \in 1..Len(warnings[r]) :
                            warnings[r][k] =
                                Warn("Invalid muscle group requested", Muscles(r)[i])

\* primary_muscles held an empty token between two identifiers, and a
\* whitespace-only token that was kept and warned about
C10_Witness ==
    \E r \in reqs :
        /\ Invoked(r)
        /\ \E i \in 1..Len(Split(Raw(r, "primary_muscles"))) :
              Split(Raw(r, "primary_muscles"))[i] = ""
        /\ Len(primaryMuscles[r]) >= 1
        /\ primaryMuscles[r][1] = " "
        /\ warnings[r] /= <<>>
        /\ warnings[r][1].muscle = " "

====
